---- MODULE Spec2Model ----
(***************************************************************************)
(* Environment/country resolution and authentication bootstrap of the      *)
(* storefront end-to-end suite: src/config/env.ts, src/utils/country-utils *)
(* and tests/setup/global-setup.ts.                                        *)
(*                                                                         *)
(* Strings are sequences of one-character strings, so that includes,       *)
(* indexOf, substring and template concatenation are computed, not assumed.*)
(***************************************************************************)
EXTENDS Integers, Sequences, FiniteSets, TLC

VARIABLES
    env,        \* process.env: variable name -> string, or Undefined when unset
    envAtLoad,  \* process.env as it was when the process started
    countries,  \* the static country table of country-config.js
    last,       \* the most recent call of the accessor / resolver and its outcome
    pc,         \* position of globalSetup
    cfg,        \* globalSetup's local countryConfig
    browser,    \* the browser chromium.launch() returned: none / open / closed
    context,    \* the browsing context of setup and its cookies, or NoContext
    disk,       \* the files on disk: path -> content, NoFile when absent
    logged,     \* console messages of the current globalSetup run
    error,      \* the exception in flight / caught in globalSetup, or NoError
    failedAt,   \* the step of the current run that raised, or "none"
    outcome,    \* globalSetup's promise: pending / fulfilled / rejected
    workers,    \* test workers the runner has started in this run
    run,        \* number of the current test run
    prior,      \* what the previous test run started from and left behind
    sessions,   \* what each worker of this run loaded and what its tests read
    runnerBaseURL, \* use.baseURL as the runner evaluated the config, before setup
    dom,        \* the page a page object works on, as it is now
    ui          \* the page-object method under way or last settled: where it is and its outcome

vars == <<env, envAtLoad, countries, last, pc, cfg, browser, context, disk,
          logged, error, failedAt, outcome, workers, run, prior, sessions,
          runnerBaseURL, dom, ui>>

pageVars == <<dom, ui>>

runnerVars == <<prior, sessions, runnerBaseURL>>

setupVars == <<pc, cfg, browser, context, disk, logged, error, failedAt,
               outcome, workers, run, runnerVars>>

--------------------------------------------------------------------------
(* Bounds of the model *)

\* most product grid items in the mini cart
MaxItems == 5

\* most 'productTextSelect' selectors on a product page
MaxSelectors == 2

\* most buttons in one selector
MaxButtons == 2

\* longest base domain of the country table, counted in parts of DomainParts
MaxParts == 2
\* test runs (globalSetup invocations) of one process
MaxRuns == 2
\* test workers the runner starts after a successful setup
MaxWorkers == 2

--------------------------------------------------------------------------
(* Strings *)

\* JavaScript undefined: a one-element sequence whose element is no character,
\* so that it equals no string
Undefined == <<"undefined">>

EMPTY == <<>>
DOT == <<".">>
WEB == <<"w", "e", "b", ".">>
HTTPS == <<"h", "t", "t", "p", "s", ":", "/", "/">>
US == <<"U", "S">>
GB == <<"G", "B">>
ZZ == <<"Z", "Z">>
PRODUCTION == <<"p", "r", "o", "d", "u", "c", "t", "i", "o", "n">>
STAGING == <<"s", "t", "a", "g", "i", "n", "g">>
STR_TRUE == <<"t", "r", "u", "e">>
STR_FALSE == <<"f", "a", "l", "s", "e">>
DEPLOY_PREVIEW == <<"d", "e", "p", "l", "o", "y", "-", "p", "r", "e", "v", "i", "e", "w">>

\* JavaScript truthiness of a string-or-undefined value
Truthy(v) == v # Undefined /\ v # EMPTY

\* a || b
Or(a, b) == IF Truthy(a) THEN a ELSE b

\* String.prototype.includes
Includes(s, sub) ==
    \E i \in 1..(Len(s) - Len(sub) + 1) : SubSeq(s, i, i + Len(sub) - 1) = sub

\* String.prototype.indexOf: 0-based position of the first occurrence, -1 if none
IndexOf(s, sub) ==
    LET hits == { i \in 1..(Len(s) - Len(sub) + 1) : SubSeq(s, i, i + Len(sub) - 1) = sub }
    IN  IF hits = {} THEN -1
        ELSE (CHOOSE i \in hits : \A j \in hits : i <= j) - 1

\* String.prototype.substring(start): start is clamped to 0..length
Substring(s, start) ==
    LET from == IF start < 0 THEN 0 ELSE IF start > Len(s) THEN Len(s) ELSE start
    IN  SubSeq(s, from + 1, Len(s))

--------------------------------------------------------------------------
(* src/config/env.ts *)

EnvNames == {"COUNTRY", "BRANCH", "HEADLESS", "BASE_URL", "DEPLOY_PREVIEW_URL",
             "DEPLOY_PRIME_URL", "CONTEXT"}

NoError == [text |-> "", arg |-> EMPTY]

\* getEnv answering from the environment captured when the process started
GetEnvAtLoad(e, name, defaultValue, required) ==
    LET value == Or(envAtLoad[name], defaultValue)
    IN  IF required /\ ~Truthy(value)
        THEN [threw |-> TRUE, value |-> Undefined, env |-> e,
              error |-> [text |-> "Required environment variable ${name} is not set",
                         arg |-> name]]
        ELSE [threw |-> FALSE, value |-> Or(value, EMPTY), env |-> e, error |-> NoError]

\* getEnv that throws for a required variable whenever process.env lacks it,
\* also when a default is given
GetEnvIgnoresDefault(e, name, defaultValue, required) ==
    LET value == Or(e[name], defaultValue)
    IN  IF required /\ ~Truthy(e[name])
        THEN [threw |-> TRUE, value |-> Undefined, env |-> e,
              error |-> [text |-> "Required environment variable ${name} is not set",
                         arg |-> name]]
        ELSE [threw |-> FALSE, value |-> Or(value, EMPTY), env |-> e, error |-> NoError]

\* getEnv(name, defaultValue?, required = false): the value returned or the
\* error thrown, and process.env after the call
GetEnv(e, name, defaultValue, required) ==
    LET value == Or(e[name], defaultValue)
    IN  IF required /\ ~Truthy(value)
        THEN [threw |-> TRUE, value |-> Undefined, env |-> e,
              error |-> [text |-> "Required environment variable ${name} is not set",
                         arg |-> name]]
        ELSE [threw |-> FALSE, value |-> Or(value, EMPTY), env |-> e, error |-> NoError]

\* the getters of the exported env object
EnvCOUNTRY(e) == GetEnv(e, "COUNTRY", US, FALSE).value
EnvBRANCH(e) == GetEnv(e, "BRANCH", PRODUCTION, FALSE).value

\* a HEADLESS getter that takes any non-empty string for true
EnvHEADLESSTruthy(e) == Truthy(GetEnv(e, "HEADLESS", STR_FALSE, FALSE).value)

EnvHEADLESS(e) == GetEnv(e, "HEADLESS", STR_FALSE, FALSE).value = STR_TRUE
EnvBASE_URL(e) == Or(e["BASE_URL"], EMPTY)
EnvDEPLOY_PREVIEW_URL(e) == GetEnv(e, "DEPLOY_PREVIEW_URL", EMPTY, FALSE).value

\* a setter that keeps the value out of process.env
SetBASE_URLNotExported(e, value) == e

\* set BASE_URL(value)
SetBASE_URL(e, value) == [e EXCEPT !["BASE_URL"] = value]

Getters == {"COUNTRY", "BRANCH", "HEADLESS", "DEPLOY_PREVIEW_URL"}

Getter(e, g) ==
    CASE g = "COUNTRY" -> EnvCOUNTRY(e)
      [] g = "BRANCH" -> EnvBRANCH(e)
      [] g = "HEADLESS" -> EnvHEADLESS(e)
      [] g = "DEPLOY_PREVIEW_URL" -> EnvDEPLOY_PREVIEW_URL(e)

--------------------------------------------------------------------------
(* src/config/country-config.js: the static table and its generator *)

\* the pieces base domains of the table are built from
DomainParts == { WEB, <<"x", ".">>, <<"c", "o">>, <<"w", "e">> }

RECURSIVE DomainsUpTo(_)
\* the strings made of at most n parts
DomainsUpTo(n) ==
    IF n = 0 THEN {EMPTY}
    ELSE LET shorter == DomainsUpTo(n - 1)
         IN  shorter \cup { d \o p : d \in shorter, p \in DomainParts }

\* the base domains a record of the table may carry, the empty one included
DomainPool == DomainsUpTo(MaxParts)

\* the raw cookieDomain a record of the table may carry
CookiePool == { <<"c", "o">>, <<".", "c", "o">> }

CountryRecord(code, domain, cookieDomain, currency) ==
    [countryCode |-> code, domain |-> domain, cookieDomain |-> cookieDomain,
     currency |-> currency]

NoConfig == CountryRecord(Undefined, Undefined, Undefined, Undefined)

\* the tables considered: country codes are unique keys
Tables ==
    { << CountryRecord(US, d, c, <<"U", "S", "D">>),
         CountryRecord(GB, <<"x", ".", "u", "k">>, <<"u", "k">>, <<"G", "B", "P">>) >> :
      d \in DomainPool, c \in CookiePool }

\* the domain template the generator applies to a base record for a branch:
\* the production domain, or a subdomain named after the branch
BranchDomain(record, branch) ==
    IF ~Truthy(branch) \/ branch = PRODUCTION
    THEN record.domain
    ELSE branch \o DOT \o record.domain

\* generateTestCountries(): reads BRANCH from process.env
GenerateTestCountries(e) ==
    [i \in 1..Len(countries) |->
        [countries[i] EXCEPT !.domain = BranchDomain(countries[i], e["BRANCH"])]]

--------------------------------------------------------------------------
(* src/utils/country-utils.ts *)

\* Array.prototype.find as an index: the first record with the country code,
\* falling back to the first record of the table when there is none
FindCountryOrFirst(list, countryCode) ==
    LET hits == { i \in 1..Len(list) : list[i].countryCode = countryCode }
    IN  IF hits = {} THEN (IF Len(list) = 0 THEN 0 ELSE 1)
        ELSE CHOOSE i \in hits : \A j \in hits : i <= j

\* Array.prototype.find as an index: the first record with the country code,
\* 0 when there is none
FindCountry(list, countryCode) ==
    LET hits == { i \in 1..Len(list) : list[i].countryCode = countryCode }
    IN  IF hits = {} THEN 0
        ELSE CHOOSE i \in hits : \A j \in hits : i <= j

\* the normalization without the leading dot on the record's own cookieDomain
CookieDomainOfNoDot(record) ==
    LET domain == record.domain
    IN  IF Includes(domain, WEB)
        THEN DOT \o Substring(domain, IndexOf(domain, WEB) + 4)
        ELSE record.cookieDomain

\* the normalization cutting one character too early
CookieDomainOfOffByOne(record) ==
    LET domain == record.domain
    IN  IF Includes(domain, WEB)
        THEN DOT \o Substring(domain, IndexOf(domain, WEB) + 3)
        ELSE DOT \o record.cookieDomain

\* the cookie-domain normalization of getEnvironmentCountryConfig
CookieDomainOf(record) ==
    LET domain == record.domain
    IN  IF Includes(domain, WEB)
        THEN DOT \o Substring(domain, IndexOf(domain, WEB) + 4)
        ELSE DOT \o record.cookieDomain

\* the generator run before BRANCH is written: it sees the environment as it was
GeneratorEnvStale(e, branch) == e

\* process.env as generateTestCountries sees it: BRANCH is assigned first
GeneratorEnv(e, branch) == [e EXCEPT !["BRANCH"] = branch]

\* a resolver that assigns the computed cookieDomain to the record it found
RecordAfterCallAssigned(record) == [record EXCEPT !.cookieDomain = CookieDomainOf(record)]

\* the record found in the generated table, once the resolver has returned:
\* the resolver reads its domain and cookieDomain and spreads it into a new
\* object, and assigns none of its properties
RecordAfterCall(record) == record

\* a resolver that restores the environment before it throws
EnvAfterThrowRolledBack(e, e1) == e

\* process.env when the resolver throws configuration-not-found: e is the
\* environment at the call, e1 the one after the assignment of BRANCH, which
\* nothing undoes
EnvAfterThrow(e, e1) == e1

\* a resolver that puts BRANCH back to production once the table is generated
SetBRANCHReset(e, branch) == [e EXCEPT !["BRANCH"] = PRODUCTION]

\* process.env.BRANCH = branch
SetBRANCH(e, branch) == [e EXCEPT !["BRANCH"] = branch]

\* getEnvironmentCountryConfig(countryCode = env.COUNTRY, branch = env.BRANCH):
\* the config returned or the error thrown, the record found in the generated
\* table, and process.env after the call
GetEnvironmentCountryConfig(e, countryCodeArg, branchArg) ==
    LET countryCode == IF countryCodeArg = Undefined THEN EnvCOUNTRY(e) ELSE countryCodeArg
        branch == IF branchArg = Undefined THEN EnvBRANCH(e) ELSE branchArg
        e1 == SetBRANCH(e, branch)
        testCountries == GenerateTestCountries(GeneratorEnv(e, branch))
        at == FindCountry(testCountries, countryCode)
    IN  IF at = 0
        THEN [threw |-> TRUE, config |-> NoConfig, found |-> NoConfig,
              env |-> EnvAfterThrow(e, e1),
              error |-> [text |-> "Test country configuration not found for country code: ${countryCode}",
                         arg |-> countryCode]]
        ELSE [threw |-> FALSE,
              config |-> [testCountries[at] EXCEPT !.cookieDomain = CookieDomainOf(testCountries[at])],
              found |-> RecordAfterCall(testCountries[at]), env |-> e1, error |-> NoError]

\* a getBaseUrl built from the cookie domain
GetBaseUrlOfCookieDomain(countryConfig) == HTTPS \o countryConfig.cookieDomain

\* getBaseUrl(countryConfig)
GetBaseUrl(countryConfig) == HTTPS \o countryConfig.domain

\* a parseDeployPreviewUrl that validates: a URL without the https:// scheme
\* is rejected and nothing is written
ParseDeployPreviewUrlValidating(e, deployPreviewUrl) ==
    IF ~Truthy(deployPreviewUrl) \/ IndexOf(deployPreviewUrl, HTTPS) # 0
    THEN [ok |-> FALSE, threw |-> FALSE, env |-> e]
    ELSE [ok |-> TRUE, threw |-> FALSE,
          env |-> [e EXCEPT !["DEPLOY_PRIME_URL"] = deployPreviewUrl,
                            !["CONTEXT"] = DEPLOY_PREVIEW]]

\* a parseDeployPreviewUrl that also makes the preview URL the base URL
ParseDeployPreviewUrlSetsBaseUrl(e, deployPreviewUrl) ==
    IF ~Truthy(deployPreviewUrl)
    THEN [ok |-> FALSE, threw |-> FALSE, env |-> e]
    ELSE [ok |-> TRUE, threw |-> FALSE,
          env |-> [e EXCEPT !["DEPLOY_PRIME_URL"] = deployPreviewUrl,
                            !["CONTEXT"] = DEPLOY_PREVIEW,
                            !["BASE_URL"] = deployPreviewUrl]]

\* parseDeployPreviewUrl(deployPreviewUrl): the boolean returned, whether the
\* call threw, and process.env after the call; the two assignments of strings
\* to process.env in the try block cannot throw
ParseDeployPreviewUrl(e, deployPreviewUrl) ==
    IF ~Truthy(deployPreviewUrl)
    THEN [ok |-> FALSE, threw |-> FALSE, env |-> e]
    ELSE [ok |-> TRUE, threw |-> FALSE,
          env |-> [e EXCEPT !["DEPLOY_PRIME_URL"] = deployPreviewUrl,
                            !["CONTEXT"] = DEPLOY_PREVIEW]]

--------------------------------------------------------------------------
(* The process environment and direct calls of the accessor and resolver *)

PreviewUrl == HTTPS \o <<"p", ".">> \o WEB \o <<"x", ".", "c", "o">>
PreviewNoScheme == <<"p", ".">> \o WEB \o <<"x", ".", "c", "o">>

\* the values a configuration variable is given in a shell or .env file;
\* Undefined stands for the variable being unset
EnvChoices(n) ==
    CASE n = "COUNTRY" -> {Undefined, EMPTY, US, GB, ZZ}
      [] n = "BRANCH" -> {Undefined, EMPTY, PRODUCTION, STAGING}
      [] n = "HEADLESS" -> {Undefined, EMPTY, STR_TRUE, STR_FALSE}
      [] n = "DEPLOY_PREVIEW_URL" -> {Undefined, EMPTY, PreviewUrl, PreviewNoScheme}
      [] n = "DEPLOY_PRIME_URL" -> {Undefined, PreviewUrl}
      [] n = "CONTEXT" -> {Undefined, PRODUCTION, DEPLOY_PREVIEW}
      [] OTHER -> {Undefined}

ConfigNames == {"COUNTRY", "BRANCH", "HEADLESS", "DEPLOY_PREVIEW_URL"}

UnsetEnv == [n \in EnvNames |-> Undefined]

NoCall == [op |-> "none", name |-> "", def |-> Undefined, req |-> FALSE,
           argCc |-> Undefined, argBr |-> Undefined, url |-> Undefined, res |-> FALSE,
           envBefore |-> UnsetEnv, prevBranch |-> Undefined]

DefaultTable ==
    << CountryRecord(US, <<"x", ".", "c", "o">>, <<"c", "o">>, <<"U", "S", "D">>),
       CountryRecord(GB, <<"x", ".", "u", "k">>, <<"u", "k">>, <<"G", "B", "P">>) >>

NoContext == [open |-> FALSE, cookies |-> {}]
NoFile == [exists |-> FALSE, cookies |-> {}]

\* PATHS.AUTH_STATE
AUTH_STATE == "./.auth/auth-state.json"

\* the storage-state path and a second path next to it
Paths == {AUTH_STATE, "./auth-state.json"}

NoPrior == [outcome |-> "none", failedAt |-> "none", baseUrl |-> Undefined,
            file |-> NoFile, changed |-> FALSE]

\* use.baseURL of playwright.config.ts, evaluated when the config is loaded
ConfigBaseURL(e) == EnvBASE_URL(e)

\* the empty string a size selection returns when the page shows no size
NoSize == [selector |-> 0, button |-> 0]

\* no 'Size: ' text is visible
Hidden == [shown |-> FALSE, size |-> NoSize]

\* a page without size selectors, selected size, free gift or cart items
NoPage == [selectors |-> <<>>, sizeText |-> Hidden, freeGift |-> FALSE, items |-> 0]

\* the outcome of a page-object method: whether it threw and with what
\* message, the value returned, the buttons clicked in order, and the
\* selection methods entered in order
NoResult == [threw |-> FALSE, error |-> "", value |-> 0, clicks |-> <<>>, trace |-> <<>>]

\* a page-object method in progress: the awaited call it is suspended at, the
\* try block it is in, the number counted by count(), the length of the list
\* of buttons and the place in it, what isVisible() or the isEnabled() calls
\* answered, whether the page stayed as it was since the call, and the
\* outcome so far
NoUi == [op |-> "none", at |-> "none", phase |-> "none", count |-> -1, n |-> 0, i |-> 0,
         answers |-> <<>>, stable |-> TRUE, res |-> NoResult]

SetupIdle ==
    /\ dom = NoPage
    /\ ui = NoUi
    /\ pc = "idle"
    /\ cfg = NoConfig
    /\ browser = "none"
    /\ context = NoContext
    /\ disk = [p \in Paths |-> NoFile]
    /\ logged = {}
    /\ error = NoError
    /\ failedAt = "none"
    /\ outcome = "pending"
    /\ workers = 0
    /\ run = 1
    /\ prior = NoPrior
    /\ sessions = <<>>
    /\ runnerBaseURL = ConfigBaseURL(env)

\* process.env[n] = v (or delete process.env[n]) by code outside the accessor
SetEnvVar(n, v) ==
    /\ env' = [env EXCEPT ![n] = v]
    /\ last' = [NoCall EXCEPT !.op = "write", !.name = n]
    /\ UNCHANGED <<envAtLoad, countries, pageVars, setupVars>>

\* a call getEnv(name, defaultValue, required)
CallGetEnv(name, defaultValue, required) ==
    LET r == GetEnv(env, name, defaultValue, required)
    IN  /\ env' = r.env
        /\ last' = [NoCall EXCEPT !.op = "getEnv", !.name = name, !.def = defaultValue,
                                  !.req = required, !.res = r, !.envBefore = env]
        /\ UNCHANGED <<envAtLoad, countries, pageVars, setupVars>>

\* a read of env.COUNTRY, env.BRANCH, env.HEADLESS or env.DEPLOY_PREVIEW_URL
ReadGetter(g) ==
    /\ last' = [NoCall EXCEPT !.op = "getter", !.name = g, !.res = Getter(env, g),
                              !.envBefore = env]
    /\ UNCHANGED <<env, envAtLoad, countries, pageVars, setupVars>>

\* a call getEnvironmentCountryConfig(countryCode, branch); an Undefined
\* argument is an omitted one
CallResolve(countryCodeArg, branchArg) ==
    LET r == GetEnvironmentCountryConfig(env, countryCodeArg, branchArg)
    IN  /\ env' = r.env
        /\ last' = [NoCall EXCEPT !.op = "resolve", !.argCc = countryCodeArg,
                                  !.argBr = branchArg, !.res = r, !.envBefore = env,
                                  !.prevBranch = IF last.op = "resolve"
                                                 THEN last.res.env["BRANCH"]
                                                 ELSE Undefined]
        /\ UNCHANGED <<envAtLoad, countries, pageVars, setupVars>>

\* the environments a process starts with in the accessor specification
LoadEnvs ==
    { UnsetEnv,
      [UnsetEnv EXCEPT !["COUNTRY"] = GB, !["BRANCH"] = STAGING,
                       !["HEADLESS"] = STR_TRUE, !["DEPLOY_PREVIEW_URL"] = PreviewUrl] }

DefaultArgs == {Undefined, EMPTY, US}

InitEnv ==
    /\ env \in LoadEnvs
    /\ envAtLoad = env
    /\ countries = DefaultTable
    /\ last = NoCall
    /\ SetupIdle

NextEnv ==
    \/ \E n \in ConfigNames : \E v \in EnvChoices(n) : SetEnvVar(n, v)
    \/ \E n \in ConfigNames \cup {"BASE_URL"} : \E d \in DefaultArgs : \E q \in BOOLEAN :
          CallGetEnv(n, d, q)
    \/ \E g \in Getters : ReadGetter(g)

\* writes to process.env interleaved with calls of the accessor
SpecEnv == InitEnv /\ [][NextEnv]_vars

InitResolve ==
    /\ env = UnsetEnv
    /\ envAtLoad = env
    /\ countries \in Tables
    /\ last = NoCall
    /\ SetupIdle

NextResolve ==
    \/ \E n \in {"COUNTRY", "BRANCH"} : \E v \in EnvChoices(n) : SetEnvVar(n, v)
    \/ \E c \in {Undefined, EMPTY, US, GB, ZZ} : \E b \in {Undefined, EMPTY, PRODUCTION, STAGING} :
          CallResolve(c, b)

\* calls of the resolver over every table, country code and branch
SpecResolve == InitResolve /\ [][NextResolve]_vars

\* a call parseDeployPreviewUrl(deployPreviewUrl); Undefined is what a
\* JavaScript caller passes when it has no value
CallParse(deployPreviewUrl) ==
    LET r == ParseDeployPreviewUrl(env, deployPreviewUrl)
    IN  /\ env' = r.env
        /\ last' = [NoCall EXCEPT !.op = "parse", !.url = deployPreviewUrl, !.res = r,
                                  !.envBefore = env]
        /\ UNCHANGED <<envAtLoad, countries, pageVars, setupVars>>

PreviewNames == {"DEPLOY_PREVIEW_URL", "DEPLOY_PRIME_URL", "CONTEXT", "BRANCH"}

InitParse ==
    /\ env \in LoadEnvs
    /\ envAtLoad = env
    /\ countries = DefaultTable
    /\ last = NoCall
    /\ SetupIdle

NextParse ==
    \/ \E n \in PreviewNames : \E v \in EnvChoices(n) : SetEnvVar(n, v)
    \/ \E u \in EnvChoices("DEPLOY_PREVIEW_URL") : CallParse(u)

\* calls of parseDeployPreviewUrl over every environment
SpecParse == InitParse /\ [][NextParse]_vars

--------------------------------------------------------------------------
(* Properties of parseDeployPreviewUrl, checked under SpecParse *)

\* C11: parseDeployPreviewUrl(url) returns false and leaves every variable of
\* the process environment as it was when url is empty or missing; for every
\* other url, with or without a scheme, it returns true, does not throw, sets
\* DEPLOY_PRIME_URL to url and CONTEXT to "deploy-preview" and changes no other
\* variable.
C11_ParseFrame ==
    last.op = "parse" =>
        /\ ~last.res.threw
        /\ IF last.url \in {Undefined, EMPTY}
           THEN /\ last.res.ok = FALSE
                /\ \A n \in EnvNames : env[n] = last.envBefore[n]
           ELSE /\ last.res.ok = TRUE
                /\ env["DEPLOY_PRIME_URL"] = last.url
                /\ env["CONTEXT"] = DEPLOY_PREVIEW
                /\ \A n \in EnvNames \ {"DEPLOY_PRIME_URL", "CONTEXT"} :
                      env[n] = last.envBefore[n]

\* a URL without a scheme was accepted: true was returned and the two
\* variables were overwritten
C11_Witness ==
    /\ last.op = "parse"
    /\ last.url = PreviewNoScheme
    /\ last.res.ok
    /\ last.envBefore["CONTEXT"] = PRODUCTION
    /\ last.envBefore["DEPLOY_PRIME_URL"] = PreviewUrl
    /\ env["CONTEXT"] = DEPLOY_PREVIEW
    /\ env["DEPLOY_PRIME_URL"] = PreviewNoScheme

--------------------------------------------------------------------------
(* Properties of the resolver, checked under SpecResolve *)

\* the country code and the branch a resolver call works with: the argument,
\* or when it is omitted the variable, or when that is unset or empty the default
CallCountry == IF last.argCc # Undefined THEN last.argCc
               ELSE IF Truthy(last.envBefore["COUNTRY"]) THEN last.envBefore["COUNTRY"]
               ELSE US
CallBranch == IF last.argBr # Undefined THEN last.argBr
              ELSE IF Truthy(last.envBefore["BRANCH"]) THEN last.envBefore["BRANCH"]
              ELSE PRODUCTION

Resolved == last.op = "resolve" /\ ~last.res.threw

\* the table the generator yields for the branch of the last call
CallTable ==
    [i \in 1..Len(countries) |->
        [countries[i] EXCEPT !.domain = BranchDomain(countries[i], CallBranch)]]

CallMatches == { i \in 1..Len(countries) : countries[i].countryCode = CallCountry }

\* the positions at which "web." occurs in a string
WebAt(d) == { i \in 1..Len(d) : i + 3 <= Len(d) /\ <<d[i], d[i + 1], d[i + 2], d[i + 3]>> = WEB }

\* C5: for every country code of the generated table and every branch, the
\* cookieDomain of the returned config starts with "."
C5_CookieDomainLeadingDot ==
    Resolved =>
        /\ Len(last.res.config.cookieDomain) >= 1
        /\ Head(last.res.config.cookieDomain) = "."

C5_Witness ==
    /\ Resolved
    /\ CallBranch = STAGING
    /\ WebAt(last.res.config.domain) = {}
    /\ Head(last.res.config.cookieDomain) = "."

\* C6: the returned cookieDomain is "." followed by what comes after the first
\* "web." of the record's domain when there is one, and "." followed by the
\* record's own cookieDomain otherwise
C6_CookieDomainNormalized ==
    Resolved =>
        \E i \in CallMatches :
            LET record == CallTable[i]
                d == record.domain
                cd == last.res.config.cookieDomain
            IN  IF WebAt(d) # {}
                THEN \E k \in WebAt(d) :
                        /\ \A j \in WebAt(d) : k <= j
                        /\ cd = DOT \o [n \in 1..(Len(d) - (k + 3)) |-> d[k + 3 + n]]
                ELSE cd = DOT \o record.cookieDomain

C6_Witness ==
    /\ Resolved
    /\ Cardinality(WebAt(last.res.config.domain)) >= 2
    /\ Len(last.res.config.cookieDomain) > 1

\* C7: a country code matching no record of the generated table makes the
\* resolver throw the not-found error carrying that code, for every branch; it
\* returns no config
C7_UnknownCountryThrows ==
    (last.op = "resolve" /\ CallMatches = {}) =>
        /\ last.res.threw
        /\ last.res.error.text = "Test country configuration not found for country code: ${countryCode}"
        /\ last.res.error.arg = CallCountry
        /\ last.res.config = NoConfig

C7_Witness ==
    /\ last.op = "resolve"
    /\ last.argCc = ZZ
    /\ last.argBr = STAGING
    /\ last.res.threw
    /\ last.res.error.arg = ZZ

\* C8: BRANCH is written before the generator runs, so the generator computes
\* with the branch of the current call, never with one left by an earlier call
C8_GeneratorSeesCallBranch ==
    /\ last.op = "resolve" => env["BRANCH"] = CallBranch
    /\ Resolved =>
          \E i \in CallMatches : last.res.config.domain = CallTable[i].domain

C8_Witness ==
    /\ Resolved
    /\ Truthy(last.prevBranch)
    /\ last.envBefore["BRANCH"] = last.prevBranch
    /\ last.prevBranch # CallBranch
    /\ \A i \in CallMatches :
          BranchDomain(countries[i], last.prevBranch) # last.res.config.domain

--------------------------------------------------------------------------
(* Properties of the accessor, checked under SpecEnv *)

\* what a read of name yields: the variable when non-empty, else the default,
\* else the empty string
Live(name, defaultValue) ==
    IF Truthy(env[name]) THEN env[name]
    ELSE IF Truthy(defaultValue) THEN defaultValue
    ELSE EMPTY

\* C9: every getEnv call returns the most recently written value when it is
\* non-empty and the default otherwise, and so do the getters of env: nothing
\* is cached
C9_ReadsAreLive ==
    /\ (last.op = "getEnv" /\ ~last.res.threw) => last.res.value = Live(last.name, last.def)
    /\ (last.op = "getter" /\ last.name = "COUNTRY") => last.res = Live("COUNTRY", US)
    /\ (last.op = "getter" /\ last.name = "BRANCH") => last.res = Live("BRANCH", PRODUCTION)
    /\ (last.op = "getter" /\ last.name = "DEPLOY_PREVIEW_URL") =>
          last.res = Live("DEPLOY_PREVIEW_URL", EMPTY)
    /\ (last.op = "getter" /\ last.name = "HEADLESS") =>
          last.res = (Live("HEADLESS", STR_FALSE) = STR_TRUE)

C9_Witness ==
    /\ last.op = "getEnv"
    /\ Truthy(envAtLoad[last.name])
    /\ Truthy(env[last.name])
    /\ env[last.name] # envAtLoad[last.name]
    /\ last.res.value = env[last.name]

\* C10: getEnv throws an error naming the variable exactly when required is
\* true and neither the variable nor the default is non-empty; otherwise it
\* returns a string, the empty one when nothing is set; it never changes the
\* environment
C10_RequiredThrows ==
    last.op = "getEnv" =>
        LET nothing == ~Truthy(last.envBefore[last.name]) /\ ~Truthy(last.def)
        IN  /\ last.res.threw <=> (last.req /\ nothing)
            /\ last.res.threw =>
                  /\ last.res.error.text = "Required environment variable ${name} is not set"
                  /\ last.res.error.arg = last.name
            /\ ~last.res.threw =>
                  /\ last.res.value # Undefined
                  /\ nothing => last.res.value = EMPTY
            /\ env = last.envBefore

C10_Witness ==
    /\ last.op = "getEnv"
    /\ last.req
    /\ last.res.threw
    /\ last.res.error.arg = last.name
    /\ last.def = EMPTY

\* C19: getEnvironmentCountryConfig does not change the record it found in the
\* table generateTestCountries returned: after the call the record has the
\* cookieDomain and the other fields the generator gave it, and the returned
\* config has the same fields with the same values except for cookieDomain
C19_RecordNotMutated ==
    Resolved =>
        \E i \in CallMatches :
            /\ last.res.found = CallTable[i]
            /\ last.res.found.cookieDomain = countries[i].cookieDomain
            /\ DOMAIN last.res.config = DOMAIN last.res.found
            /\ \A f \in (DOMAIN last.res.found) \ {"cookieDomain"} :
                  last.res.config[f] = last.res.found[f]

\* a call whose returned cookieDomain is not the record's
C19_Witness ==
    /\ Resolved
    /\ CallBranch = STAGING
    /\ last.res.found.cookieDomain = <<".", "c", "o">>
    /\ last.res.config.cookieDomain = <<".", ".", "c", "o">>
    /\ last.res.config.domain = last.res.found.domain

C23_GetterDefaults ==
    last.op = "getter" =>
        /\ last.name = "COUNTRY" =>
              last.res = IF env["COUNTRY"] \in {Undefined, EMPTY} THEN US ELSE env["COUNTRY"]
        /\ last.name = "BRANCH" =>
              last.res = IF env["BRANCH"] \in {Undefined, EMPTY} THEN PRODUCTION
                         ELSE env["BRANCH"]
        /\ last.name = "HEADLESS" =>
              /\ last.res \in BOOLEAN
              /\ last.res <=> env["HEADLESS"] = STR_TRUE

\* HEADLESS is the string "false": the getter yields the boolean false
C23_Witness ==
    /\ last.op = "getter"
    /\ last.name = "HEADLESS"
    /\ env["HEADLESS"] = STR_FALSE
    /\ last.res = FALSE
    /\ env["COUNTRY"] = EMPTY
    /\ env["BRANCH"] = STAGING

\* C24: after every call of getEnvironmentCountryConfig, whether it returned
\* or threw configuration-not-found, process.env.BRANCH is the branch the call
\* used: the argument, or env.BRANCH when it was omitted, which is "production"
\* when BRANCH was unset or empty; a failed call does not restore the old value
C24_BranchWriteNotRolledBack ==
    last.op = "resolve" =>
        /\ env["BRANCH"] = (IF last.argBr # Undefined THEN last.argBr
                            ELSE IF last.envBefore["BRANCH"] \in {Undefined, EMPTY}
                                 THEN PRODUCTION
                                 ELSE last.envBefore["BRANCH"])
        /\ last.res.threw => last.res.env["BRANCH"] = env["BRANCH"]

\* a call for an unknown country with BRANCH unset: it threw, and BRANCH is
\* now "production"
C24_Witness ==
    /\ last.op = "resolve"
    /\ last.res.threw
    /\ last.argBr = Undefined
    /\ last.envBefore["BRANCH"] = Undefined
    /\ env["BRANCH"] = PRODUCTION

--------------------------------------------------------------------------
(* src/utils/browser/cookie-manager.ts *)

AuthCookie(name, value, cookieDomain) ==
    [name |-> name, value |-> value, domain |-> cookieDomain, path |-> "/",
     expires |-> -1, httpOnly |-> FALSE, secure |-> FALSE, sameSite |-> "Lax"]

\* an addAuthCookies that adds the access cookie only
AuthCookiesAccessOnly(cookieDomain) ==
    { AuthCookie("vuori_access", "allowed", cookieDomain) }

\* the cookies CookieManager.addAuthCookies hands to context.addCookies
AuthCookies(cookieDomain) ==
    { AuthCookie("vuori_access", "allowed", cookieDomain),
      AuthCookie("automation", "true", cookieDomain) }

--------------------------------------------------------------------------
(* tests/setup/global-setup.ts and the runner of playwright.config.ts *)

\* a bootstrap that saves whatever state there is when a step rejects
OnBootstrapThrowSaveAnyway == "save"

\* a bootstrap that opens a new context and tries again when a step rejects
OnBootstrapThrowRetry == "newContext"

\* a resolver error that is logged and swallowed, so that setup carries on
OnResolveThrowContinue == "launch"

\* where control goes when getEnvironmentCountryConfig throws inside the outer try
OnResolveThrow == "catch"

\* a bootstrap without finally: an error skips browser.close()
OnBootstrapThrowSkipClose == "catch"

\* where control goes when a step inside the inner try throws
OnBootstrapThrow == "finally"

\* a catch block that logs the error and does not re-throw it
CatchOutcomeSwallowed == "fulfilled"

\* how globalSetup's promise settles after the catch block: throw error
CatchOutcome == "rejected"

BrowserError(step) == [text |-> step, arg |-> EMPTY]

\* the path globalSetup hands to CookieManager.saveContextState
SaveStatePath == AUTH_STATE

\* a storageState option naming another file than the one setup writes
ConfigStorageStatePathOther == "./auth-state.json"

\* use.storageState of playwright.config.ts
ConfigStorageStatePath == AUTH_STATE

\* use.headless of playwright.config.ts
ConfigHeadless(e) == EnvHEADLESS(e)

\* globalSetup up to the preview check: the start-up logging and, with a
\* preview URL configured, parseDeployPreviewUrl
Begin ==
    /\ pc = "idle"
    /\ LET preview == EnvDEPLOY_PREVIEW_URL(env)
           parsed == ParseDeployPreviewUrl(env, preview)
       IN  IF Truthy(preview)
           THEN /\ env' = parsed.env
                /\ last' = [NoCall EXCEPT !.op = "parse", !.url = preview, !.res = parsed,
                                          !.envBefore = env]
                /\ logged' = {"env", "DEPLOY_PREVIEW_URL",
                              IF parsed.ok THEN "deploy preview" ELSE "parse warning"}
           ELSE /\ env' = env
                /\ last' = last
                /\ logged' = {"env"}
    /\ pc' = "resolve"
    /\ UNCHANGED <<envAtLoad, countries, pageVars, cfg, browser, context, disk, error,
                   failedAt, outcome, workers, run, runnerVars>>

\* the resolution of the country configuration and the write of BASE_URL
Resolve ==
    /\ pc = "resolve"
    /\ LET countryCode == Or(env["COUNTRY"], EnvCOUNTRY(env))
           branch == Or(env["BRANCH"], EnvBRANCH(env))
           r == GetEnvironmentCountryConfig(env, countryCode, branch)
       IN  /\ last' = [NoCall EXCEPT !.op = "resolve", !.argCc = countryCode,
                                     !.argBr = branch, !.res = r, !.envBefore = env]
           /\ IF r.threw
              THEN /\ env' = r.env
                   /\ error' = r.error
                   /\ failedAt' = "resolve"
                   /\ pc' = OnResolveThrow
                   /\ UNCHANGED <<cfg, logged>>
              ELSE /\ cfg' = r.config
                   /\ env' = SetBASE_URL(r.env, GetBaseUrl(r.config))
                   /\ logged' = logged \cup {"BASE_URL", "cookie domain"}
                   /\ pc' = "launch"
                   /\ UNCHANGED <<error, failedAt>>
    /\ UNCHANGED <<envAtLoad, countries, pageVars, browser, context, disk, outcome, workers, run, runnerVars>>

\* chromium.launch() resolves
LaunchOk ==
    /\ pc = "launch"
    /\ browser' = "open"
    /\ pc' = "newContext"
    /\ UNCHANGED <<env, envAtLoad, countries, pageVars, last, cfg, context, disk, logged, error,
                   failedAt, outcome, workers, run, runnerVars>>

\* chromium.launch() rejects: no browser, control goes to the catch block
LaunchFail ==
    /\ pc = "launch"
    /\ error' = BrowserError("launch")
    /\ failedAt' = IF failedAt = "none" THEN "launch" ELSE failedAt
    /\ pc' = "catch"
    /\ UNCHANGED <<env, envAtLoad, countries, pageVars, last, cfg, browser, context, disk, logged,
                   outcome, workers, run, runnerVars>>

\* browser.newContext() resolves with an empty context
NewContextOk ==
    /\ pc = "newContext"
    /\ context' = [open |-> TRUE, cookies |-> {}]
    /\ pc' = "addCookies"
    /\ UNCHANGED <<env, envAtLoad, countries, pageVars, last, cfg, browser, disk, logged, error,
                   failedAt, outcome, workers, run, runnerVars>>

\* one of the awaited steps inside try { } finally { } rejects
BootstrapFail(step) ==
    /\ pc = step
    /\ error' = BrowserError(step)
    /\ failedAt' = IF failedAt = "none" THEN step ELSE failedAt
    /\ pc' = OnBootstrapThrow
    /\ UNCHANGED <<env, envAtLoad, countries, pageVars, last, cfg, browser, context, disk, logged,
                   outcome, workers, run, runnerVars>>

\* CookieManager.addAuthCookies(context, countryConfig.cookieDomain)
AddAuthCookiesOk ==
    /\ pc = "addCookies"
    /\ context' = [context EXCEPT !.cookies = @ \cup AuthCookies(cfg.cookieDomain)]
    /\ pc' = "save"
    /\ UNCHANGED <<env, envAtLoad, countries, pageVars, last, cfg, browser, disk, logged, error,
                   failedAt, outcome, workers, run, runnerVars>>

\* CookieManager.saveContextState(context, PATHS.AUTH_STATE)
SaveContextStateOk ==
    /\ pc = "save"
    /\ disk' = [disk EXCEPT ![SaveStatePath] = [exists |-> TRUE, cookies |-> context.cookies]]
    /\ logged' = logged \cup {"Auth state saved"}
    /\ pc' = "finally"
    /\ UNCHANGED <<env, envAtLoad, countries, pageVars, last, cfg, browser, context, error, failedAt,
                   outcome, workers, run, runnerVars>>

\* finally { await browser.close() }
CloseBrowser ==
    /\ pc = "finally"
    /\ browser' = "closed"
    /\ pc' = IF failedAt = "none" THEN "return" ELSE "catch"
    /\ UNCHANGED <<env, envAtLoad, countries, pageVars, last, cfg, context, disk, logged, error,
                   failedAt, outcome, workers, run, runnerVars>>

\* finally { await browser.close() } when browser.close() rejects: the
\* rejection leaves the finally block in place of a pending step error and
\* reaches the outer catch; the browser was not closed
CloseBrowserFail ==
    /\ pc = "finally"
    /\ error' = BrowserError("close")
    /\ failedAt' = IF failedAt = "none" THEN "close" ELSE failedAt
    /\ pc' = "catch"
    /\ UNCHANGED <<env, envAtLoad, countries, pageVars, last, cfg, browser, context, disk, logged,
                   outcome, workers, run, runnerVars>>

\* globalSetup returns: its promise is fulfilled
Return ==
    /\ pc = "return"
    /\ outcome' = "fulfilled"
    /\ pc' = "done"
    /\ UNCHANGED <<env, envAtLoad, countries, pageVars, last, cfg, browser, context, disk, logged,
                   error, failedAt, workers, run, runnerVars>>

\* catch (error) { console.error(...); throw error }
Catch ==
    /\ pc = "catch"
    /\ logged' = logged \cup {"Error in global setup"}
    /\ outcome' = CatchOutcome
    /\ pc' = "done"
    /\ UNCHANGED <<env, envAtLoad, countries, pageVars, last, cfg, browser, context, disk, error,
                   failedAt, workers, run, runnerVars>>

\* a test that switches the branch of its process
TestBodySwitchesBranch(e) ==
    [baseUrl |-> EnvBASE_URL(e), branch |-> EnvBRANCH(e),
     env |-> [e EXCEPT !["BRANCH"] = STAGING]]

\* what a test reads through the baseUrl fixture (env.BASE_URL) and in its
\* body (env.BRANCH), and the environment of its process afterwards
TestBody(e) ==
    [baseUrl |-> GetEnv(e, "BASE_URL", EMPTY, FALSE).value,
     branch |-> GetEnv(GetEnv(e, "BASE_URL", EMPTY, FALSE).env, "BRANCH", PRODUCTION, FALSE).value,
     env |-> GetEnv(GetEnv(e, "BASE_URL", EMPTY, FALSE).env, "BRANCH", PRODUCTION, FALSE).env]

\* the runner starts a test worker once the globalSetup promise is fulfilled:
\* the worker process inherits a copy of the environment, loads
\* playwright.config.ts and opens its browser context from the storageState file
StartWorker ==
    /\ pc = "done"
    /\ outcome = "fulfilled"
    /\ workers < MaxWorkers
    /\ workers' = workers + 1
    /\ sessions' = Append(sessions,
          [env |-> GetEnv(GetEnv(env, "BASE_URL", EMPTY, FALSE).env,
                          "HEADLESS", STR_FALSE, FALSE).env,
           baseURL |-> ConfigBaseURL(env), headless |-> ConfigHeadless(env),
           storage |-> disk[ConfigStorageStatePath], tested |-> FALSE,
           baseUrl |-> Undefined, branch |-> Undefined])
    /\ UNCHANGED <<env, envAtLoad, countries, pageVars, last, pc, cfg, browser, context, disk,
                   logged, error, failedAt, outcome, run, prior, runnerBaseURL>>

\* a test of worker w runs in the worker's process
RunTest(w) ==
    /\ pc = "done"
    /\ w \in 1..Len(sessions)
    /\ ~sessions[w].tested
    /\ sessions' = [sessions EXCEPT ![w] = [@ EXCEPT !.tested = TRUE,
                                                      !.baseUrl = TestBody(sessions[w].env).baseUrl,
                                                      !.branch = TestBody(sessions[w].env).branch,
                                                      !.env = TestBody(sessions[w].env).env]]
    /\ UNCHANGED <<env, envAtLoad, countries, pageVars, last, pc, cfg, browser, context, disk,
                   logged, error, failedAt, outcome, workers, run, prior, runnerBaseURL>>

\* the next test run: globalSetup starts afresh; the process environment and
\* the storage-state file are as the last run left them, except that COUNTRY
\* may have been set to another country in between (c = Undefined: no change)
NextRun(c) ==
    /\ pc = "done"
    /\ run < MaxRuns
    /\ run' = run + 1
    /\ env' = IF c = Undefined THEN env ELSE [env EXCEPT !["COUNTRY"] = c]
    /\ prior' = [outcome |-> outcome, failedAt |-> failedAt, baseUrl |-> env["BASE_URL"],
                 file |-> disk[AUTH_STATE], changed |-> env' # env]
    /\ sessions' = <<>>
    /\ runnerBaseURL' = ConfigBaseURL(env')
    /\ pc' = "idle"
    /\ cfg' = NoConfig
    /\ browser' = "none"
    /\ context' = NoContext
    /\ logged' = {}
    /\ error' = NoError
    /\ failedAt' = "none"
    /\ outcome' = "pending"
    /\ workers' = 0
    /\ last' = NoCall
    /\ UNCHANGED <<envAtLoad, countries, pageVars, disk>>

\* the environments a test run starts with
StartEnvs ==
    { [UnsetEnv EXCEPT !["COUNTRY"] = c, !["BRANCH"] = b, !["DEPLOY_PREVIEW_URL"] = p] :
        c \in EnvChoices("COUNTRY"), b \in EnvChoices("BRANCH"),
        p \in EnvChoices("DEPLOY_PREVIEW_URL") }

Init ==
    /\ env \in StartEnvs
    /\ envAtLoad = env
    /\ countries \in Tables
    /\ last = NoCall
    /\ SetupIdle

Next ==
    \/ Begin
    \/ Resolve
    \/ LaunchOk
    \/ LaunchFail
    \/ NewContextOk
    \/ AddAuthCookiesOk
    \/ SaveContextStateOk
    \/ \E step \in {"newContext", "addCookies", "save"} : BootstrapFail(step)
    \/ CloseBrowser
    \/ CloseBrowserFail
    \/ Return
    \/ Catch
    \/ StartWorker
    \/ \E w \in 1..MaxWorkers : RunTest(w)
    \/ \E c \in {Undefined, GB} : NextRun(c)

\* test runs: global setup, then the workers
Spec == Init /\ [][Next]_vars

--------------------------------------------------------------------------
(* Properties of global setup, checked under Spec *)

\* C1: in a run with a non-empty DEPLOY_PREVIEW_URL the country/branch
\* resolution is bypassed and the value written to BASE_URL is the preview URL
C1_PreviewUrlBecomesBaseUrl ==
    (pc # "idle" /\ Truthy(env["DEPLOY_PREVIEW_URL"])) =>
        /\ last.op # "resolve"
        /\ "BASE_URL" \in logged => env["BASE_URL"] = env["DEPLOY_PREVIEW_URL"]

\* C2: an error raised by any step of global setup is logged and re-thrown,
\* and no test worker starts in that run; a worker starts only after
\* globalSetup has completed successfully
C2_FailFast ==
    /\ (pc = "done" /\ failedAt # "none") =>
          /\ "Error in global setup" \in logged
          /\ outcome = "rejected"
          /\ error # NoError
    /\ failedAt # "none" => workers = 0
    /\ workers > 0 => (pc = "done" /\ outcome = "fulfilled" /\ failedAt = "none")

C2_Witness ==
    /\ pc = "done"
    /\ failedAt = "save"
    /\ outcome = "rejected"
    /\ "Error in global setup" \in logged
    /\ workers = 0
    /\ ~ENABLED StartWorker

\* C3: a browser that was launched is closed before globalSetup returns or
\* throws, on every exit path the claim lists: success, and the failure of
\* newContext, of addAuthCookies or of saveContextState. Every way out of a
\* run that launched the browser passes through the finally block, and a run
\* that ends with its promise fulfilled or with the error of one of the three
\* steps ends with the browser closed
C3_BrowserClosedOnExit ==
    /\ [][(browser # "none" /\ pc' # pc /\ pc' \in {"return", "catch"}) => pc = "finally"]_vars
    /\ []((pc \in {"return", "catch", "done"} /\ error # BrowserError("close"))
            => browser # "open")
    /\ [](outcome = "fulfilled" => (browser = "closed" /\ failedAt = "none"))
    /\ [](\A step \in {"newContext", "addCookies", "save"} :
            (pc \in {"catch", "done"} /\ error = BrowserError(step)) =>
                (failedAt = step /\ browser = "closed"))

\* the context could not be opened: the browser was closed before the throw
C3_Witness ==
    /\ pc = "done"
    /\ outcome = "rejected"
    /\ failedAt = "newContext"
    /\ error = BrowserError("newContext")
    /\ browser = "closed"

\* C4: when resolution fails with a configuration error no browser is
\* launched in that run
C4_NoLaunchAfterFailedResolution ==
    failedAt = "resolve" =>
        /\ browser = "none"
        /\ pc \in {"catch", "done"}
        /\ context = NoContext

C4_Witness ==
    /\ failedAt = "resolve"
    /\ pc = "done"
    /\ outcome = "rejected"
    /\ error.arg = ZZ
    /\ browser = "none"

\* the two cookies of a successful setup, written out field by field
ExpectedCookies(cookieDomain) ==
    { [name |-> "vuori_access", value |-> "allowed", domain |-> cookieDomain,
       path |-> "/", expires |-> -1, httpOnly |-> FALSE, secure |-> FALSE,
       sameSite |-> "Lax"],
      [name |-> "automation", value |-> "true", domain |-> cookieDomain,
       path |-> "/", expires |-> -1, httpOnly |-> FALSE, secure |-> FALSE,
       sameSite |-> "Lax"] }

\* C12: after a successful global setup the cookies injected into the context
\* and persisted in the storage-state file are exactly two, vuori_access=allowed
\* and automation=true, each with the resolved cookieDomain, path "/",
\* expires -1, httpOnly false, secure false and sameSite Lax, and no other
C12_ExactlyTwoCookies ==
    (pc = "done" /\ outcome = "fulfilled") =>
        /\ context.cookies = ExpectedCookies(cfg.cookieDomain)
        /\ disk[AUTH_STATE] = [exists |-> TRUE, cookies |-> ExpectedCookies(cfg.cookieDomain)]
        /\ Cardinality(disk[AUTH_STATE].cookies) = 2

C12_Witness ==
    /\ pc = "done"
    /\ outcome = "fulfilled"
    /\ cfg.cookieDomain = <<".", "c", "o">>
    /\ \E k \in disk[AUTH_STATE].cookies : k.name = "automation" /\ k.domain = <<".", "c", "o">>

\* C13: global setup run twice in sequence from the same COUNTRY, BRANCH and
\* DEPLOY_PREVIEW_URL resolves the second time as it did the first: the same
\* BASE_URL is written and the storage-state file holds the same cookies with
\* the same domain, although the first run wrote BRANCH, BASE_URL,
\* DEPLOY_PRIME_URL and CONTEXT into the environment the second run starts from
C13_SetupIdempotent ==
    (run > 1 /\ ~prior.changed /\ prior.outcome = "fulfilled") =>
        /\ failedAt # "resolve"
        /\ pc \notin {"idle", "resolve"} => env["BASE_URL"] = prior.baseUrl
        /\ (pc = "done" /\ outcome = "fulfilled") =>
              /\ disk[AUTH_STATE] = prior.file
              /\ disk[AUTH_STATE].exists

\* a second successful run on a branch with a preview URL, whose first run
\* wrote BRANCH, BASE_URL, DEPLOY_PRIME_URL and CONTEXT
C13_Witness ==
    /\ run = 2
    /\ ~prior.changed
    /\ prior.outcome = "fulfilled"
    /\ pc = "done"
    /\ outcome = "fulfilled"
    /\ envAtLoad["BRANCH"] = STAGING
    /\ envAtLoad["DEPLOY_PREVIEW_URL"] = PreviewUrl
    /\ envAtLoad["CONTEXT"] = Undefined
    /\ env["CONTEXT"] = DEPLOY_PREVIEW
    /\ env["BASE_URL"] = prior.baseUrl
    /\ prior.baseUrl # Undefined

\* C14: during a test run BASE_URL is written once, by the step of global
\* setup that follows a successful resolution, and the value written is
\* https:// and the resolved domain; no step of the preview check, the browser
\* bootstrap, the workers' configuration, the fixtures or the specs changes it,
\* and every read after the write (the log line, the sessions' baseURL option,
\* the baseUrl fixture) returns the value written
C14_BaseUrlWrittenOnce ==
    /\ [][env'["BASE_URL"] # env["BASE_URL"] =>
            /\ pc = "resolve"
            /\ pc' = "launch"
            /\ env'["BASE_URL"] = GetBaseUrl(cfg')]_vars
    /\ []("BASE_URL" \in logged => env["BASE_URL"] = GetBaseUrl(cfg))
    /\ [](\A w \in 1..Len(sessions) :
            /\ sessions[w].baseURL = GetBaseUrl(cfg)
            /\ sessions[w].env["BASE_URL"] = GetBaseUrl(cfg)
            /\ sessions[w].tested => sessions[w].baseUrl = GetBaseUrl(cfg))

\* the second run of a process wrote another BASE_URL than the first, and a
\* test of that run read it
C14_Witness ==
    /\ run = 2
    /\ prior.baseUrl # Undefined
    /\ env["BASE_URL"] # prior.baseUrl
    /\ Len(sessions) = 2
    /\ sessions[2].tested
    /\ sessions[2].baseUrl = env["BASE_URL"]

\* C15: the base URL a test session uses, both the baseURL option its worker
\* evaluates from env.BASE_URL and the value of the baseUrl fixture, is the
\* BASE_URL that global setup of the same run resolved and wrote; it is never
\* the value BASE_URL had before setup wrote it, the empty string of the first
\* run included
C15_SessionsUseResolvedBaseUrl ==
    \A w \in 1..Len(sessions) :
        /\ last.op = "resolve"
        /\ ~last.res.threw
        /\ sessions[w].baseURL = HTTPS \o last.res.config.domain
        /\ sessions[w].baseURL # EMPTY
        /\ run = 1 => sessions[w].baseURL # runnerBaseURL
        /\ run > 1 /\ prior.baseUrl # env["BASE_URL"] => sessions[w].baseURL # prior.baseUrl
        /\ sessions[w].tested => sessions[w].baseUrl = sessions[w].baseURL

\* a session of the first run: the runner evaluated baseURL as the empty
\* string before setup, the session has the resolved URL
C15_Witness ==
    /\ run = 1
    /\ runnerBaseURL = EMPTY
    /\ Len(sessions) >= 1
    /\ sessions[1].tested
    /\ sessions[1].baseURL = HTTPS \o <<"x", ".", "u", "k">>
    /\ sessions[1].baseUrl = sessions[1].baseURL

\* C16: in the parallel phase the workers only read BASE_URL, BRANCH and the
\* storage-state file. No step of a worker (the evaluation of the config, the
\* fixtures, a test body) changes the file or the runner's environment, every
\* worker's own environment keeps the BASE_URL and BRANCH it inherited, and
\* all sessions of a run read the same values whatever the order of the
\* workers' steps
C16_WorkersOnlyRead ==
    /\ [][pc = "done" /\ pc' = "done" => env' = env /\ disk' = disk]_vars
    /\ [](\A w \in 1..Len(sessions) :
            /\ sessions[w].env["BASE_URL"] = env["BASE_URL"]
            /\ sessions[w].env["BRANCH"] = env["BRANCH"]
            /\ sessions[w].storage = disk[AUTH_STATE]
            /\ \A v \in 1..Len(sessions) :
                  /\ sessions[v].baseURL = sessions[w].baseURL
                  /\ sessions[v].storage = sessions[w].storage
                  /\ sessions[v].tested /\ sessions[w].tested =>
                        /\ sessions[v].baseUrl = sessions[w].baseUrl
                        /\ sessions[v].branch = sessions[w].branch)

\* two workers, the second started after the first one's test ran and its
\* test run as well, on a staging branch
C16_Witness ==
    /\ Len(sessions) = 2
    /\ sessions[1].tested
    /\ sessions[2].tested
    /\ sessions[1].branch = STAGING
    /\ sessions[2].branch = STAGING
    /\ sessions[2].storage.exists

\* C17: after a successful global setup that had no preview URL, BASE_URL is
\* "https://" followed by the domain of the config getEnvironmentCountryConfig
\* returns for the current COUNTRY and BRANCH
C17_BaseUrlIsHttpsDomain ==
    (pc = "done" /\ outcome = "fulfilled" /\ env["DEPLOY_PREVIEW_URL"] \in {Undefined, EMPTY}) =>
        LET r == GetEnvironmentCountryConfig(env, Undefined, Undefined)
        IN  /\ ~r.threw
            /\ r.config = cfg
            /\ env["BASE_URL"] = HTTPS \o r.config.domain
            /\ env["CONTEXT"] = Undefined

\* the UK store on the staging branch
C17_Witness ==
    /\ pc = "done"
    /\ outcome = "fulfilled"
    /\ env["DEPLOY_PREVIEW_URL"] = EMPTY
    /\ env["COUNTRY"] = GB
    /\ env["BRANCH"] = STAGING
    /\ env["BASE_URL"] = HTTPS \o STAGING \o DOT \o <<"x", ".", "u", "k">>

\* C18: global setup writes the storage state to the path the sessions load
\* their storageState from (PATHS.AUTH_STATE), so every session of a run starts
\* with the cookies that run's setup saved; the setup of a later run replaces
\* the content of the file, leaving nothing of the earlier content, and no other
\* file is written
C18_SessionsLoadSavedState ==
    /\ SaveStatePath = ConfigStorageStatePath
    /\ \A p \in Paths \ {AUTH_STATE} : disk[p] = NoFile
    /\ \A w \in 1..Len(sessions) :
          /\ sessions[w].storage.exists
          /\ sessions[w].storage.cookies = context.cookies
          /\ \A k \in sessions[w].storage.cookies : k.domain = cfg.cookieDomain
    /\ (pc = "done" /\ outcome = "fulfilled") =>
          disk[AUTH_STATE] = [exists |-> TRUE, cookies |-> context.cookies]

\* the second run resolved another country than the first: the file no longer
\* holds the first run's cookies, and a session has loaded the new ones
C18_Witness ==
    /\ run = 2
    /\ prior.file.exists
    /\ \A k \in prior.file.cookies : k.domain = <<".", "c", "o">>
    /\ Len(sessions) >= 1
    /\ sessions[1].storage = disk[AUTH_STATE]
    /\ \A k \in sessions[1].storage.cookies : k.domain = <<".", "u", "k">>
    /\ Cardinality(sessions[1].storage.cookies) = 2

\* C25: within globalSetup parseDeployPreviewUrl is called only with a
\* non-empty string and returns true every time it is called: the run logs
\* "Running tests against deploy preview" exactly when a preview URL is set, and
\* the warning "Failed to parse deploy preview URL, falling back to normal
\* configuration" is never logged
C25_ParseWarningUnreachable ==
    /\ "parse warning" \notin logged
    /\ last.op = "parse" =>
          /\ last.url \notin {Undefined, EMPTY}
          /\ last.res.ok
    /\ pc # "idle" =>
          ("deploy preview" \in logged <=> env["DEPLOY_PREVIEW_URL"] \notin {Undefined, EMPTY})

\* the preview check of a run whose preview URL has no scheme
C25_Witness ==
    /\ pc = "resolve"
    /\ last.op = "parse"
    /\ last.url = PreviewNoScheme
    /\ last.res.ok
    /\ "deploy preview" \in logged

\* the order of the steps of globalSetup
StepRank(p) ==
    CASE p = "idle" -> 0
      [] p = "resolve" -> 1
      [] p = "launch" -> 2
      [] p = "newContext" -> 3
      [] p = "addCookies" -> 4
      [] p = "save" -> 5
      [] p = "finally" -> 6
      [] p \in {"return", "catch"} -> 7
      [] OTHER -> 8

\* C22: within one run of globalSetup every step moves on to a later step, so
\* resolution, browser launch, context creation, cookie injection and the save
\* of the storage state are each attempted at most once; once a step has
\* failed only the browser's close and the catch block follow, and nothing the
\* failed step or a later step would have produced exists
C22_NoRetry ==
    /\ [][run' = run /\ pc # "done" => StepRank(pc') > StepRank(pc)]_vars
    /\ [][run' = run /\ failedAt # "none" =>
            /\ failedAt' = failedAt
            /\ pc' \in {"finally", "catch", "done"}
            /\ cfg' = cfg /\ context' = context /\ disk' = disk
            /\ browser' \in {browser, "closed"}]_vars
    /\ [](failedAt # "none" => pc \in {"finally", "catch", "done"})

\* the cookie injection failed: the browser was closed and the run is over
C22_Witness ==
    /\ failedAt = "addCookies"
    /\ pc = "done"
    /\ outcome = "rejected"
    /\ browser = "closed"
    /\ context = [open |-> TRUE, cookies |-> {}]
    /\ "Auth state saved" \notin logged

\* C26: in a run of globalSetup the storage-state file is written only when
\* resolution succeeded, the browser was launched, the context was opened and
\* both auth cookies were added: a run in which one of these steps failed
\* leaves the file as the previous run left it (absent in a first run), and a
\* file that exists never holds fewer than the two auth cookies
C26_SaveOnlyAfterAllSteps ==
    /\ [][disk' # disk \/ "Auth state saved" \in logged' \ logged =>
            /\ pc = "save"
            /\ failedAt = "none"
            /\ "BASE_URL" \in logged
            /\ browser = "open"
            /\ context.open
            /\ context.cookies = ExpectedCookies(cfg.cookieDomain)
            /\ disk'[AUTH_STATE] = [exists |-> TRUE, cookies |-> context.cookies]]_vars
    /\ [](failedAt \in {"resolve", "launch", "newContext", "addCookies"} =>
            /\ disk[AUTH_STATE] = prior.file
            /\ "Auth state saved" \notin logged)
    /\ [](\A p \in Paths : disk[p].exists => Cardinality(disk[p].cookies) = 2)

\* a second run failed while adding the cookies: the file of the first run
\* is still there
C26_Witness ==
    /\ run = 2
    /\ failedAt = "addCookies"
    /\ pc = "done"
    /\ prior.outcome = "fulfilled"
    /\ prior.file.exists
    /\ disk[AUTH_STATE] = prior.file
    /\ context.cookies = {}

--------------------------------------------------------------------------
(* MiniCartPage *)

\* a page-object method that is suspended at an awaited call, moves on, or
\* has settled
Running == ui.at \notin {"none", "done"}

\* the frame of a method that was just called
Called(op, at, phase) ==
    [NoUi EXCEPT !.op = op, !.at = at, !.phase = phase]

\* hasFreeGiftOnPage(): whether the text 'Free Gift' is visible when
\* isVisible() answers, false when that call rejects
HasFreeGiftOnPage(d, rejects) ==
    IF rejects THEN FALSE ELSE d.freeGift

\* a getProductIndexForValidation that trusts the free-gift text alone
GetProductIndexForValidationNoCount(hasFreeGift, rejects, productCount) ==
    IF hasFreeGift THEN 1 ELSE 0

\* getProductIndexForValidation(): the value returned once the free-gift
\* check answered hasFreeGift and, after it, count() answered productCount or
\* rejected
GetProductIndexForValidation(hasFreeGift, rejects, productCount) ==
    LET productIndex == IF hasFreeGift THEN 1 ELSE 0
    IN  IF hasFreeGift
        THEN IF rejects THEN 0
             ELSE IF productCount <= 1 THEN 0 ELSE productIndex
        ELSE productIndex

\* the mini carts considered: the free-gift text shown or not, and the
\* number of product grid items
CartPages ==
    { [NoPage EXCEPT !.freeGift = g, !.items = n] : g \in BOOLEAN, n \in 0..MaxItems }

\* the cart drawer changes, also while a method awaits a call: items are
\* added or removed, a gift appears or goes; a settled call is kept with the
\* cart it settled on
CartChanges(d) ==
    /\ d # dom
    /\ ui.at # "done"
    /\ dom' = d
    /\ ui' = IF Running THEN [ui EXCEPT !.stable = FALSE] ELSE ui
    /\ UNCHANGED <<env, envAtLoad, countries, last, setupVars>>

\* a call miniCart.getProductIndexForValidation(), up to its first await
CallProductIndex ==
    /\ ~Running
    /\ ui' = Called("productIndex", "isVisible", "direct")
    /\ UNCHANGED <<env, envAtLoad, countries, dom, last, setupVars>>

\* await freeGiftText.isVisible() settles: without a free gift the method
\* returns productIndex 0, with one it goes on to count the items
FreeGiftIsVisible(rejects) ==
    /\ ui.op = "productIndex"
    /\ ui.at = "isVisible"
    /\ LET hasFreeGift == HasFreeGiftOnPage(dom, rejects)
           u == IF rejects THEN [ui EXCEPT !.res.error = "Error checking for free gift"]
                ELSE [ui EXCEPT !.answers = <<dom.freeGift>>]
       IN  ui' = IF hasFreeGift
                 THEN [u EXCEPT !.at = "count"]
                 ELSE [u EXCEPT !.at = "done",
                                !.res.value = GetProductIndexForValidation(hasFreeGift, FALSE, 0)]
    /\ UNCHANGED <<env, envAtLoad, countries, dom, last, setupVars>>

\* await this.cartItem.getProductGridItems().count() settles
ProductCount(rejects) ==
    /\ ui.op = "productIndex"
    /\ ui.at = "count"
    /\ LET u == IF rejects
                THEN [ui EXCEPT !.res.error = "Error determining product index for validation"]
                ELSE [ui EXCEPT !.count = dom.items]
       IN  ui' = [u EXCEPT !.at = "done",
                           !.res.value = GetProductIndexForValidation(TRUE, rejects, dom.items)]
    /\ UNCHANGED <<env, envAtLoad, countries, dom, last, setupVars>>

InitCart ==
    /\ env = UnsetEnv
    /\ envAtLoad = env
    /\ countries = DefaultTable
    /\ last = NoCall
    /\ SetupIdle

NextCart ==
    \/ \E d \in CartPages : CartChanges(d)
    \/ CallProductIndex
    \/ \E rejects \in BOOLEAN : FreeGiftIsVisible(rejects)
    \/ \E rejects \in BOOLEAN : ProductCount(rejects)

\* calls of the mini-cart page object over every cart
SpecCart == InitCart /\ [][NextCart]_vars

\* C27: getProductIndexForValidation returns 1 exactly when isVisible()
\* answered that the 'Free Gift' text is visible and count(), asked after it,
\* answered more than one product grid item, and 0 in every other case: no
\* free gift, a free gift with at most one item, or a check that raised; it
\* never throws and returns no other value. On a cart that stays as it is
\* during the call these answers are the cart's: 1 exactly when the cart
\* shows 'Free Gift' and holds more than one item and no check raised
C27_ProductIndex ==
    (ui.op = "productIndex" /\ ui.at = "done") =>
        /\ ~ui.res.threw
        /\ ui.res.value \in {0, 1}
        /\ ui.res.value = 1 <=> (ui.answers = <<TRUE>> /\ ui.count > 1)
        /\ ui.stable =>
              (ui.res.value = 1 <=>
                  (dom.freeGift /\ dom.items > 1 /\ ui.res.error = ""))

\* a free gift is shown but the cart holds one item only: index 0
C27_Witness ==
    /\ ui.op = "productIndex"
    /\ ui.at = "done"
    /\ ui.stable
    /\ ui.res.error = ""
    /\ dom.freeGift
    /\ dom.items = 1
    /\ ui.answers = <<TRUE>>
    /\ ui.count = 1
    /\ ui.res.value = 0

--------------------------------------------------------------------------
(* src/components/pdp/size-selector-component.ts *)

\* the buttons of selector i in document order; a button is enabled or not
ButtonsOf(d, i) ==
    IF i > Len(d.selectors) THEN <<>>
    ELSE [j \in 1..Len(d.selectors[i]) |->
            [selector |-> i, button |-> j, enabled |-> d.selectors[i][j]]]

RECURSIVE AllButtons(_, _)
\* sizeOptions.locator('button'): the buttons of every element with the
\* test id 'productTextSelect', from selector i on, in document order
AllButtons(d, i) ==
    IF i > Len(d.selectors) THEN <<>> ELSE ButtonsOf(d, i) \o AllButtons(d, i + 1)

\* the buttons a selection method walks over: those of the second selector
\* for the inseam, those of every selector for the size
Buttons(d, at) ==
    IF at \in {"inseamAll", "inseamIsEnabled", "inseamClick"}
    THEN ButtonsOf(d, 2) ELSE AllButtons(d, 1)

Click(b) == [selector |-> b.selector, button |-> b.button]

\* the text after 'Size:' of a button's size
Label(i, j) == [selector |-> i, button |-> j]

\* the product pages considered: up to MaxSelectors selectors of up to
\* MaxButtons buttons each, and the 'Size: ' text hidden, shown without a
\* size after it, or shown with the size of a button
ButtonLists == UNION { [1..k -> BOOLEAN] : k \in 0..MaxButtons }

SizeTexts ==
    {Hidden, [shown |-> TRUE, size |-> NoSize]}
        \cup { [shown |-> TRUE, size |-> Label(1, j)] : j \in 1..MaxButtons }

PdpPages ==
    { [NoPage EXCEPT !.selectors = s, !.sizeText = t] :
        s \in UNION { [1..k -> ButtonLists] : k \in 0..MaxSelectors },
        t \in SizeTexts }

\* one change of the product page: a size goes out of stock or comes in, a
\* button or a selector appears or goes, the 'Size: ' text changes
Changed(d) ==
    LET s == d.selectors
    IN  { [d EXCEPT !.selectors[i][j] = ~@] :
            <<i, j>> \in { p \in (1..Len(s)) \X (1..MaxButtons) : p[2] <= Len(s[p[1]]) } }
        \cup { [d EXCEPT !.selectors[i] = Append(@, b)] :
                 <<i, b>> \in { p \in (1..Len(s)) \X BOOLEAN : Len(s[p[1]]) < MaxButtons } }
        \cup { [d EXCEPT !.selectors[i] = SubSeq(@, 1, Len(@) - 1)] :
                 i \in { k \in 1..Len(s) : Len(s[k]) > 0 } }
        \cup { [d EXCEPT !.selectors = Append(@, <<>>)] : k \in { k \in {1} : Len(s) < MaxSelectors } }
        \cup { [d EXCEPT !.selectors = SubSeq(@, 1, Len(@) - 1)] : k \in { k \in {1} : Len(s) > 0 } }
        \cup { [d EXCEPT !.sizeText = t] : t \in SizeTexts \ {d.sizeText} }

\* the product page changes while a method awaits a call, any number of
\* times between two awaited calls; a settled call is kept with the page it
\* settled on, and the page moves on once the next call is under way
PdpChanges(d) ==
    /\ d # dom
    /\ Running
    /\ dom' = d
    /\ ui' = [ui EXCEPT !.stable = FALSE]
    /\ UNCHANGED <<env, envAtLoad, countries, last, setupVars>>

\* selectFirstAvailableSize() is entered
SelectFirstAvailableSize(u) ==
    [u EXCEPT !.at = "sizeAll", !.n = 0, !.i = 0, !.answers = <<>>,
              !.res.trace = Append(@, "size")]

\* selectFirstAvailableInseam() is entered
SelectFirstAvailableInseam(u) ==
    [u EXCEPT !.at = "inseamCount", !.n = 0, !.i = 0, !.answers = <<>>,
              !.res.trace = Append(@, "inseam")]

\* an error leaves a method: a method called by the test throws it; in the
\* try block of selectFirstAvailableSizeAndInseam it starts the fallback, a
\* second selectFirstAvailableSize(); in the fallback it is thrown as a new
\* error
Throws(u, message) ==
    IF u.phase = "direct"
    THEN [u EXCEPT !.at = "done", !.res.threw = TRUE, !.res.error = message]
    ELSE IF u.phase = "primary"
    THEN SelectFirstAvailableSize([u EXCEPT !.phase = "fallback", !.res.error = message])
    ELSE [u EXCEPT !.at = "done", !.res.threw = TRUE,
                   !.res.error = "Failed to select size and inseam: ${error}"]

\* selectFirstAvailableSize() returns the selected size; the combined method
\* drops it and returns
SizeReturns(u, selectedSize) ==
    IF u.phase = "direct"
    THEN [u EXCEPT !.at = "done", !.res.value = selectedSize]
    ELSE [u EXCEPT !.at = "done"]

\* selectFirstAvailableInseam() returns: to the test, or to the combined
\* method, which selects the size next
InseamReturns(u) ==
    IF u.phase = "direct" THEN [u EXCEPT !.at = "done"] ELSE SelectFirstAvailableSize(u)

\* an inseam selection whose catch block re-throws
InseamCatchRethrows(u, message) == Throws(u, message)

\* the catch block of selectFirstAvailableInseam: the error is logged and the
\* method returns
InseamCatch(u, message) == InseamReturns([u EXCEPT !.res.error = message])

\* an error inside a selection method
Raise(u, message) ==
    IF u.at \in {"inseamCount", "inseamAll", "inseamIsEnabled", "inseamClick"}
    THEN InseamCatch(u, message)
    ELSE Throws(u, message)

\* a loop that passes over an enabled first button when more follow
LoopStepSkipsFirst(isEnabled, i, n) ==
    IF isEnabled /\ ~(i = 1 /\ n > 1) THEN "select"
    ELSE IF i < n THEN "next" ELSE "none"

\* for (const b of buttons) if (await b.isEnabled()) {...}: what follows the
\* answer for button i of n
LoopStep(isEnabled, i, n) ==
    IF isEnabled THEN "select"
    ELSE IF i < n THEN "next" ELSE "none"

\* a combined selection that never selects an inseam
AfterCountSizeOnly(sizeSelectors) ==
    IF sizeSelectors >= 1 THEN "size" ELSE "return"

\* selectFirstAvailableSizeAndInseam(): the branch taken on the number of
\* 'productTextSelect' elements
AfterCount(sizeSelectors) ==
    IF sizeSelectors > 1 THEN "inseam"
    ELSE IF sizeSelectors = 1 THEN "size"
    ELSE "return"

\* a call sizeSelector.selectFirstAvailableSize(), up to its first await
CallSelectSize ==
    /\ ~Running
    /\ ui' = SelectFirstAvailableSize(Called("size", "sizeAll", "direct"))
    /\ UNCHANGED <<env, envAtLoad, countries, dom, last, setupVars>>

\* the same call on the first copy of the class
CallSelectSizeFirstCopy ==
    /\ ~Running
    /\ ui' = SelectFirstAvailableSize(Called("sizeFirstCopy", "sizeAll", "direct"))
    /\ UNCHANGED <<env, envAtLoad, countries, dom, last, setupVars>>

\* a call sizeSelector.selectFirstAvailableInseam(), up to its first await
CallSelectInseam ==
    /\ ~Running
    /\ ui' = SelectFirstAvailableInseam(Called("inseam", "inseamCount", "direct"))
    /\ UNCHANGED <<env, envAtLoad, countries, dom, last, setupVars>>

\* a call pdp.selectFirstAvailableSizeAndInseam(), up to its first await
CallSelectSizeAndInseam ==
    /\ ~Running
    /\ ui' = Called("sizeAndInseam", "count", "primary")
    /\ UNCHANGED <<env, envAtLoad, countries, dom, last, setupVars>>

\* await this.page.getByTestId('productTextSelect').count() of the combined
\* method settles
SelectorCount(rejects) ==
    /\ ui.at = "count"
    /\ ui.op = "sizeAndInseam"
    /\ ui' = IF rejects THEN Throws(ui, "count rejected")
             ELSE LET sizeSelectors == Len(dom.selectors)
                      u == [ui EXCEPT !.count = sizeSelectors]
                  IN  CASE AfterCount(sizeSelectors) = "inseam" -> SelectFirstAvailableInseam(u)
                        [] AfterCount(sizeSelectors) = "size" -> SelectFirstAvailableSize(u)
                        [] OTHER -> [u EXCEPT !.at = "done"]
    /\ UNCHANGED <<env, envAtLoad, countries, dom, last, setupVars>>

\* await this.page.getByTestId('productTextSelect').count() of
\* selectFirstAvailableInseam settles
InseamCount(rejects) ==
    /\ ui.at = "inseamCount"
    /\ ui' = IF rejects THEN Raise(ui, "count rejected")
             ELSE IF Len(dom.selectors) > 1
                  THEN [ui EXCEPT !.at = "inseamAll"]
                  ELSE InseamReturns(ui)
    /\ UNCHANGED <<env, envAtLoad, countries, dom, last, setupVars>>

\* await inseamSelector.locator('button').all() settles: the buttons of the
\* second selector as they are now; none when that selector is gone
InseamAll(rejects) ==
    /\ ui.at = "inseamAll"
    /\ ui' = IF rejects THEN Raise(ui, "inseamAll rejected")
             ELSE LET inseamButtons == Buttons(dom, ui.at)
                  IN  IF Len(inseamButtons) = 0 THEN InseamReturns(ui)
                      ELSE [ui EXCEPT !.at = "inseamIsEnabled",
                                      !.n = Len(inseamButtons), !.i = 1]
    /\ UNCHANGED <<env, envAtLoad, countries, dom, last, setupVars>>

\* await inseam.isEnabled() settles for button i; it cannot answer for a
\* button that is no longer on the page
InseamIsEnabled(rejects) ==
    /\ ui.at = "inseamIsEnabled"
    /\ rejects \/ ui.i <= Len(Buttons(dom, ui.at))
    /\ ui' = IF rejects THEN Raise(ui, "isEnabled rejected")
             ELSE LET isEnabled == Buttons(dom, ui.at)[ui.i].enabled
                      u == [ui EXCEPT !.answers = Append(@, isEnabled)]
                      then == LoopStep(isEnabled, ui.i, ui.n)
                  IN  CASE then = "select" -> [u EXCEPT !.at = "inseamClick"]
                        [] then = "next" -> [u EXCEPT !.i = @ + 1]
                        [] OTHER -> InseamReturns(u)
    /\ UNCHANGED <<env, envAtLoad, countries, dom, last, setupVars>>

\* await inseam.click() settles, then break
InseamClick(rejects) ==
    /\ ui.at = "inseamClick"
    /\ rejects \/ ui.i <= Len(Buttons(dom, ui.at))
    /\ ui' = IF rejects THEN Raise(ui, "click rejected")
             ELSE InseamReturns(
                    [ui EXCEPT !.res.clicks = Append(@, Click(Buttons(dom, ui.at)[ui.i]))])
    /\ UNCHANGED <<env, envAtLoad, countries, dom, last, setupVars>>

\* the error of a size selection that found no enabled button
NoAvailableSizes(op) ==
    IF op = "sizeFirstCopy" THEN "No available sizes found"
    ELSE "No available sizes found - all sizes may be out of stock"

\* await this.sizeOptions.locator('button').all() settles; the second copy of
\* the class throws on an empty list, the first walks over it and finds none
SizeAll(rejects) ==
    /\ ui.at = "sizeAll"
    /\ ui' = IF rejects THEN Raise(ui, "sizeAll rejected")
             ELSE LET sizeButtons == Buttons(dom, ui.at)
                  IN  IF Len(sizeButtons) = 0
                      THEN Raise(ui, IF ui.op = "sizeFirstCopy" THEN NoAvailableSizes(ui.op)
                                     ELSE "No size buttons found on the page")
                      ELSE [ui EXCEPT !.at = "isEnabled", !.n = Len(sizeButtons), !.i = 1]
    /\ UNCHANGED <<env, envAtLoad, countries, dom, last, setupVars>>

\* await size.isEnabled() settles for button i; the second copy reads the
\* text of an enabled button before it clicks
SizeIsEnabled(rejects) ==
    /\ ui.at = "isEnabled"
    /\ rejects \/ ui.i <= Len(Buttons(dom, ui.at))
    /\ ui' = IF rejects THEN Raise(ui, "isEnabled rejected")
             ELSE LET isEnabled == Buttons(dom, ui.at)[ui.i].enabled
                      u == [ui EXCEPT !.answers = Append(@, isEnabled)]
                      then == LoopStep(isEnabled, ui.i, ui.n)
                  IN  CASE then = "select" ->
                             [u EXCEPT !.at = IF ui.op = "sizeFirstCopy" THEN "click"
                                              ELSE "textContent"]
                        [] then = "next" -> [u EXCEPT !.i = @ + 1]
                        [] OTHER -> Raise(u, NoAvailableSizes(ui.op))
    /\ UNCHANGED <<env, envAtLoad, countries, dom, last, setupVars>>

\* const sizeText = (await size.textContent()) || 'unknown' settles
SizeTextContent(rejects) ==
    /\ ui.at = "textContent"
    /\ rejects \/ ui.i <= Len(Buttons(dom, ui.at))
    /\ ui' = IF rejects THEN Raise(ui, "textContent rejected")
             ELSE [ui EXCEPT !.at = "click"]
    /\ UNCHANGED <<env, envAtLoad, countries, dom, last, setupVars>>

\* await size.click() settles: the button now at that place was clicked
SizeClick(rejects) ==
    /\ ui.at = "click"
    /\ rejects \/ ui.i <= Len(Buttons(dom, ui.at))
    /\ ui' = IF rejects THEN Raise(ui, "click rejected")
             ELSE [ui EXCEPT !.at = "selectedIsVisible",
                             !.res.clicks = Append(@, Click(Buttons(dom, ui.at)[ui.i]))]
    /\ UNCHANGED <<env, envAtLoad, countries, dom, last, setupVars>>

\* getSelectedSize(): await this.selectedSizeText.isVisible() settles; '' is
\* returned when no 'Size: ' text is visible
SelectedSizeIsVisible(rejects) ==
    /\ ui.at = "selectedIsVisible"
    /\ ui' = IF rejects THEN Raise(ui, "getSelectedSize rejected")
             ELSE IF dom.sizeText.shown
                  THEN [ui EXCEPT !.at = "selectedTextContent"]
                  ELSE SizeReturns(ui, NoSize)
    /\ UNCHANGED <<env, envAtLoad, countries, dom, last, setupVars>>

\* text.match(/Size:\s*(.+)/i): what follows 'Size:' in the text, '' when
\* nothing does
MatchSize(t) == IF t.shown THEN t.size ELSE NoSize

\* getSelectedSize(): await this.selectedSizeText.textContent() settles; the
\* size the page shows now is returned
SelectedSizeTextContent(rejects) ==
    /\ ui.at = "selectedTextContent"
    /\ ui' = IF rejects
             THEN Raise(ui, "getSelectedSize rejected")
             ELSE SizeReturns(ui, MatchSize(dom.sizeText))
    /\ UNCHANGED <<env, envAtLoad, countries, dom, last, setupVars>>

InitPdp ==
    /\ env = UnsetEnv
    /\ envAtLoad = env
    /\ countries = DefaultTable
    /\ last = NoCall
    /\ pc = "idle"
    /\ cfg = NoConfig
    /\ browser = "none"
    /\ context = NoContext
    /\ disk = [p \in Paths |-> NoFile]
    /\ logged = {}
    /\ error = NoError
    /\ failedAt = "none"
    /\ outcome = "pending"
    /\ workers = 0
    /\ run = 1
    /\ prior = NoPrior
    /\ sessions = <<>>
    /\ runnerBaseURL = ConfigBaseURL(env)
    /\ dom \in PdpPages
    /\ ui = NoUi

NextPdp ==
    \/ \E d \in Changed(dom) : PdpChanges(d)
    \/ CallSelectSize
    \/ CallSelectSizeFirstCopy
    \/ CallSelectInseam
    \/ CallSelectSizeAndInseam
    \/ \E rejects \in BOOLEAN : SelectorCount(rejects)
    \/ \E rejects \in BOOLEAN : InseamCount(rejects)
    \/ \E rejects \in BOOLEAN : InseamAll(rejects)
    \/ \E rejects \in BOOLEAN : InseamIsEnabled(rejects)
    \/ \E rejects \in BOOLEAN : InseamClick(rejects)
    \/ \E rejects \in BOOLEAN : SizeAll(rejects)
    \/ \E rejects \in BOOLEAN : SizeIsEnabled(rejects)
    \/ \E rejects \in BOOLEAN : SizeTextContent(rejects)
    \/ \E rejects \in BOOLEAN : SizeClick(rejects)
    \/ \E rejects \in BOOLEAN : SelectedSizeIsVisible(rejects)
    \/ \E rejects \in BOOLEAN : SelectedSizeTextContent(rejects)

\* calls of the size selector over every product page
SpecPdp == InitPdp /\ [][NextPdp]_vars

--------------------------------------------------------------------------
(* Properties of the size selector, checked under SpecPdp *)

\* the enabled buttons of the page, as <<selector, button>>
EnabledAt == { <<i, j>> \in (1..MaxSelectors + 1) \X (1..MaxButtons + 1) :
                 /\ i <= Len(dom.selectors)
                 /\ j <= Len(dom.selectors[i])
                 /\ dom.selectors[i][j] }

\* document order of two buttons
Before(a, b) == a[1] < b[1] \/ (a[1] = b[1] /\ a[2] <= b[2])

\* how often the size selection was entered in the call
SizeAttempts == Cardinality({ k \in 1..Len(ui.res.trace) : ui.res.trace[k] = "size" })

\* the errors of awaited calls that rejected
Rejections ==
    {"count rejected", "sizeAll rejected", "inseamAll rejected", "isEnabled rejected",
     "textContent rejected", "click rejected", "getSelectedSize rejected"}

\* some isEnabled() of the selection under way answered true
AnsweredEnabled == \E k \in 1..Len(ui.answers) : ui.answers[k]

\* C28: selectFirstAvailableSizeAndInseam works in an order fixed by the number
\* of 'productTextSelect' selectors it counts: with more than one, the inseam
\* selection comes first and the size selection after it, and no inseam is
\* selected once a size selection has begun; with exactly one, only the size
\* selection runs; with none, nothing is clicked and the call returns without
\* an error
C28_InseamBeforeSize ==
    (ui.op = "sizeAndInseam" /\ ui.count >= 0) =>
        LET trace == ui.res.trace
        IN  /\ ui.stable => ui.count = Len(dom.selectors)
            /\ ui.count > 1 =>
                  /\ Len(trace) >= 1
                  /\ trace[1] = "inseam"
                  /\ \A k \in 2..Len(trace) : trace[k] = "size"
                  /\ ui.at = "done" => Len(trace) >= 2
                  /\ ui.at \in {"inseamCount", "inseamAll", "inseamIsEnabled", "inseamClick"}
                        => (trace = <<"inseam">> /\ ui.res.clicks = <<>>)
            /\ ui.count = 1 =>
                  /\ Len(trace) >= 1
                  /\ \A k \in 1..Len(trace) : trace[k] = "size"
                  /\ ui.stable =>
                        \A k \in 1..Len(ui.res.clicks) : ui.res.clicks[k].selector = 1
            /\ ui.count = 0 =>
                  /\ ui.at = "done"
                  /\ trace = <<>>
                  /\ ui.res.clicks = <<>>
                  /\ ~ui.res.threw

\* two selectors, an inseam clicked first and a size after it
C28_Witness ==
    /\ ui.op = "sizeAndInseam"
    /\ ui.at = "done"
    /\ ui.stable
    /\ ui.count = 2
    /\ dom.selectors = << <<FALSE, TRUE>>, <<TRUE>> >>
    /\ ui.res.trace = <<"inseam", "size">>
    /\ ui.res.clicks = << [selector |-> 2, button |-> 1], [selector |-> 1, button |-> 2] >>
    /\ ~ui.res.threw

\* C29: selectFirstAvailableSize clicks at most one button: the first one, in
\* document order, of the buttons under the 'productTextSelect' elements
\* whose isEnabled() answered true, every button before it having answered
\* false, and it clicks none after it; it returns only after that one click,
\* and when there are no such buttons or none answered enabled it throws and
\* has clicked nothing. On a page that stays as it is during the call the
\* clicked button is the first enabled button of the page, and the call
\* throws only when the page has no enabled button or an awaited call rejected
C29_FirstEnabledSizeClicked ==
    ui.op \in {"size", "sizeFirstCopy"} =>
        /\ Len(ui.res.clicks) <= 1
        /\ \A k \in 1..Len(ui.res.clicks) :
              LET c == <<ui.res.clicks[k].selector, ui.res.clicks[k].button>>
              IN  /\ ui.i = Len(ui.answers)
                  /\ ui.answers[ui.i]
                  /\ \A m \in 1..(ui.i - 1) : ~ui.answers[m]
                  /\ ui.stable => (c \in EnabledAt /\ \A e \in EnabledAt : Before(c, e))
        /\ ui.at = "done" =>
              /\ ~ui.res.threw => Len(ui.res.clicks) = 1
              /\ ~AnsweredEnabled => (ui.res.threw /\ ui.res.clicks = <<>>)
              /\ (AnsweredEnabled /\ ui.res.threw) => ui.res.error \in Rejections
              /\ (ui.stable /\ EnabledAt = {}) => (ui.res.threw /\ ui.res.clicks = <<>>)
              /\ (ui.stable /\ EnabledAt # {} /\ ui.res.threw) => ui.res.error \in Rejections

\* the first button is disabled, the second and third are enabled: the
\* second is clicked
C29_Witness ==
    /\ ui.op = "size"
    /\ ui.at = "done"
    /\ ui.stable
    /\ dom.selectors = << <<FALSE, TRUE>>, <<TRUE>> >>
    /\ ui.answers = <<FALSE, TRUE>>
    /\ ui.res.clicks = << [selector |-> 1, button |-> 2] >>
    /\ ~ui.res.threw

\* C30: selectFirstAvailableInseam never throws, so within
\* selectFirstAvailableSizeAndInseam a failed inseam selection is followed by
\* the size selection all the same; when the first attempt throws, the size
\* selection is entered once more, and the call throws 'Failed to select size
\* and inseam' only when that second attempt throws too; the size selection is
\* entered at most twice in a call
C30_FallbackOnce ==
    /\ ui.op = "inseam" => ~ui.res.threw
    /\ ui.op = "sizeAndInseam" =>
          LET trace == ui.res.trace
          IN  /\ SizeAttempts <= 2
              /\ (ui.at = "done" /\ ui.count > 1) => (Len(trace) >= 2 /\ trace[2] = "size")
              /\ (ui.count = -1 /\ ui.at # "count") =>
                    (trace = <<"size">> /\ ui.phase = "fallback")
              /\ ui.phase = "fallback" =>
                    /\ trace[Len(trace)] = "size"
                    /\ SizeAttempts = 2 \/ ui.count = -1
              /\ SizeAttempts = 2 => ui.phase = "fallback"
              /\ ui.res.threw =>
                    /\ ui.at = "done"
                    /\ ui.phase = "fallback"
                    /\ ui.res.error = "Failed to select size and inseam: ${error}"
              /\ (ui.at = "done" /\ ~ui.res.threw /\ ui.count # 0) => Len(ui.res.clicks) >= 1

\* the buttons of the inseam selector cannot be listed, which the inseam
\* selection swallows; the size is selected all the same
C30_Witness ==
    /\ ui.op = "sizeAndInseam"
    /\ ui.at = "done"
    /\ ui.stable
    /\ dom.selectors = << <<TRUE>>, <<TRUE>> >>
    /\ ui.res.error = "inseamAll rejected"
    /\ ui.res.trace = <<"inseam", "size">>
    /\ ui.res.clicks = << [selector |-> 1, button |-> 1] >>
    /\ ~ui.res.threw

====
